---- MODULE Spec2Model ----
(***************************************************************************)
(* Model of wrt::ExtensionServer (src/src/extension/extension_server.cc):  *)
(* the extension registry filled by Start, the instance table, and the     *)
(* five D-Bus methods dispatched by HandleDBusMethod.                      *)
(***************************************************************************)
EXTENDS Integers, Sequences, FiniteSets, TLC

(* ------------------------------ bounds -------------------------------- *)
\* number of files the glob of the system directory may return
MaxSys == 2
\* number of caller-supplied paths handed to Start(paths)
MaxPaths == 1
\* number of ids GenerateUUID hands out in one run
MaxIds == 2
\* number of accepted SendSyncMessage calls in one run
MaxSync == 2
\* number of OnMessageToJS signals recorded in one run
MaxSignals == 2
\* number of signals after which the instances of the running server
\* (NextServer) push no more
MaxPushes == 1

(* ------------------------- input domains ------------------------------ *)
ExtNames == {"A", "B"}
EntryPointLists == {<<>>, <<"x">>, <<"y", "x">>, <<"B">>}
Msgs == {"m1", "m2"}
CallMsgs == {"get"}
Replies == {"r1", "r2"}
\* an ExtensionInstance whose SendSyncReplyCallback has not been set
NoInvocation == 0
\* no ExtensionInstance (the result of a failed lookup)
NoInstance == 0
\* the GDBusConnection* handed to HandleDBusMethod: the peer's, or none
Connections == {"peer", "null"}

\* What Extension::Initialize finds at a path: a module that fails to load,
\* or a loaded module with a name and an entry point vector.
\* Extension::javascript_api of the module named n.
ApiOf(n) == <<"api", n>>

FailedModule ==
    [ok |-> FALSE, name |-> "", entry_points |-> <<>>, javascript_api |-> <<>>]
Modules ==
    {FailedModule} \cup
    {[ok |-> TRUE, name |-> n, entry_points |-> e, javascript_api |-> ApiOf(n)] :
        n \in ExtNames, e \in EntryPointLists}

Range(s) == {s[k] : k \in DOMAIN s}

SysPath(k) == <<"sys", k>>
UsrPath(k) == <<"usr", k>>

VARIABLES
    pc,                  \* position of the server process
    gl_pathc,            \* glob_result.gl_pathc
    sys_i,               \* loop index of RegisterSystemExtensions
    paths,               \* argument of Start(paths)
    path_i,              \* number of caller-supplied paths already visited
    extensions_,         \* name -> Extension
    extension_symbols_,  \* set of names and entry points
    order,               \* paths given to RegisterExtension, in call order
    loaded,              \* <<kind, name, admitted>> of every module loaded
    registered,          \* names logged as "is registered", in order
    uuid_n,              \* number of ids GenerateUUID has handed out
    instances_,          \* instance id -> ExtensionInstance object
    heap,                \* the ExtensionInstance objects not yet deleted
    n_sync,              \* number of SendSyncMessage calls accepted
    invocations,         \* invocation awaiting its reply -> instance id
    signals,             \* OnMessageToJS signals sent, in order
    conn_open,           \* the peer connection is not closed
    dbus_server_,        \* the method callback is set, the server is started
    notified,            \* number of NotifyEPCreatedToApplication calls
    created,             \* ids CreateInstance has returned, in order
    destroyed,           \* ids DestroyInstance has returned
    last                 \* outcome of the most recent handler

vars == <<pc, gl_pathc, sys_i, paths, path_i, extensions_, extension_symbols_,
          order, loaded, registered, uuid_n, instances_, heap, n_sync,
          invocations, signals, conn_open, dbus_server_, notified, created,
          destroyed, last>>

startVars == <<gl_pathc, sys_i, paths, path_i>>

serverVars == <<dbus_server_, notified>>

instanceVars == <<uuid_n, instances_, heap, n_sync, invocations, signals,
                  conn_open,
                  created, destroyed>>

registryVars == <<extensions_, extension_symbols_, order, loaded, registered>>

(* --------------------------- the registry ----------------------------- *)
\* RegisterSymbols without the loop that checks the entry points.
RegisterSymbols_NoEntryPointCheck(ext, symbols) ==
    IF ext.name \in symbols
    THEN [ok |-> FALSE, symbols |-> symbols]
    ELSE [ok |-> TRUE,
          symbols |-> symbols \cup Range(ext.entry_points) \cup {ext.name}]

\* RegisterSymbols with the check and the insertion in one loop: the entry
\* points before the first colliding one are inserted before it returns.
RegisterSymbols_InsertWhileChecking(ext, symbols) ==
    LET eps == ext.entry_points
        bad == {k \in DOMAIN eps : eps[k] \in symbols}
        first == CHOOSE k \in bad : \A j \in bad : k <= j
    IN  IF ext.name \in symbols
        THEN [ok |-> FALSE, symbols |-> symbols]
        ELSE IF bad # {}
        THEN [ok |-> FALSE,
              symbols |-> symbols \cup {eps[j] : j \in 1..(first - 1)}]
        ELSE [ok |-> TRUE, symbols |-> symbols \cup Range(eps) \cup {ext.name}]

\* RegisterSymbols that records the name of the extension and leaves its
\* entry points out.
RegisterSymbols_NameOnly(ext, symbols) ==
    IF ext.name \in symbols
    THEN [ok |-> FALSE, symbols |-> symbols]
    ELSE IF \E k \in DOMAIN ext.entry_points : ext.entry_points[k] \in symbols
    THEN [ok |-> FALSE, symbols |-> symbols]
    ELSE [ok |-> TRUE, symbols |-> symbols \cup {ext.name}]

\* ExtensionServer::RegisterSymbols: the result and the symbol set it leaves.
RegisterSymbols(ext, symbols) ==
    IF ext.name \in symbols
    THEN [ok |-> FALSE, symbols |-> symbols]
    ELSE IF \E k \in DOMAIN ext.entry_points : ext.entry_points[k] \in symbols
    THEN [ok |-> FALSE, symbols |-> symbols]
    ELSE [ok |-> TRUE,
          symbols |-> symbols \cup Range(ext.entry_points) \cup {ext.name}]

Put(map, key, value) ==
    [k \in DOMAIN map \cup {key} |-> IF k = key THEN value ELSE map[k]]

\* RegisterExtension storing the extension whatever RegisterSymbols returns.
RegisterExtension_IgnoreResult(path, m) ==
    LET r == RegisterSymbols(m, extension_symbols_)
        ext == [path |-> path, name |-> m.name, entry_points |-> m.entry_points,
                javascript_api |-> m.javascript_api]
    IN  /\ extension_symbols_' = IF m.ok THEN r.symbols ELSE extension_symbols_
        /\ extensions_' = IF m.ok THEN Put(extensions_, m.name, ext)
                          ELSE extensions_
        /\ registered' = IF m.ok THEN Append(registered, m.name) ELSE registered
        /\ order' = Append(order, path)
        /\ loaded' = IF m.ok THEN loaded \cup {<<path[1], m.name, r.ok>>}
                     ELSE loaded
        /\ last' = [op |-> "RegisterExtension", path |-> path, module |-> m,
                    result |-> IF ~m.ok THEN "init_failed"
                               ELSE IF r.ok THEN "registered" ELSE "rejected"]

\* ExtensionServer::RegisterExtension(path), m being what Initialize loads.
RegisterExtension(path, m) ==
    LET r == RegisterSymbols(m, extension_symbols_)
        admitted == m.ok /\ r.ok
        ext == [path |-> path, name |-> m.name, entry_points |-> m.entry_points,
                javascript_api |-> m.javascript_api]
    IN  /\ extension_symbols_' = IF m.ok THEN r.symbols ELSE extension_symbols_
        /\ extensions_' = IF admitted THEN Put(extensions_, m.name, ext)
                          ELSE extensions_
        /\ registered' = IF admitted THEN Append(registered, m.name)
                         ELSE registered
        /\ order' = Append(order, path)
        /\ loaded' = IF m.ok THEN loaded \cup {<<path[1], m.name, r.ok>>}
                     ELSE loaded
        /\ last' = [op |-> "RegisterExtension", path |-> path, module |-> m,
                    result |-> IF ~m.ok THEN "init_failed"
                               ELSE IF r.ok THEN "registered" ELSE "rejected"]

(* ------------------------------ Start --------------------------------- *)
\* Start that logs a failed ConnectByName and goes on.
Start_IgnoreConnect(pathCounts, globCounts) ==
    /\ pc = "Idle"
    /\ \E n \in pathCounts, connected \in BOOLEAN, c \in globCounts :
          /\ paths' = [k \in 1..n |-> UsrPath(k)]
          /\ pc' = "RegisterSystem"
          /\ gl_pathc' = c
          /\ last' = [op |-> "Start", result |-> connected]
    /\ UNCHANGED <<sys_i, path_i, serverVars, registryVars, instanceVars>>

\* Start(paths) up to the glob of RegisterSystemExtensions.
Start(pathCounts, globCounts) ==
    /\ pc = "Idle"
    /\ \E n \in pathCounts, connected \in BOOLEAN, c \in globCounts :
          /\ paths' = [k \in 1..n |-> UsrPath(k)]
          /\ IF connected
             THEN pc' = "RegisterSystem" /\ gl_pathc' = c
             ELSE pc' = "StartFailed" /\ gl_pathc' = gl_pathc
          /\ last' = [op |-> "Start", result |-> connected]
    /\ UNCHANGED <<sys_i, path_i, serverVars, registryVars, instanceVars>>

\* RegisterSystemExtensions that gives the start up when a module fails to load.
RegisterSystemExtensions_AbortOnFailure(M) ==
    /\ pc = "RegisterSystem"
    /\ sys_i < gl_pathc
    /\ \E m \in M : /\ RegisterExtension(SysPath(sys_i + 1), m)
                    /\ pc' = IF m.ok THEN pc ELSE "StartFailed"
    /\ sys_i' = sys_i + 1
    /\ UNCHANGED <<gl_pathc, paths, path_i, serverVars, instanceVars>>

\* One turn of the loop of RegisterSystemExtensions.
RegisterSystemExtensions(M) ==
    /\ pc = "RegisterSystem"
    /\ sys_i < gl_pathc
    /\ \E m \in M : RegisterExtension(SysPath(sys_i + 1), m)
    /\ sys_i' = sys_i + 1
    /\ UNCHANGED <<pc, gl_pathc, paths, path_i, serverVars, instanceVars>>

\* RegisterSystemExtensions returns; Start goes on to the user extensions.
SystemExtensionsDone ==
    /\ pc = "RegisterSystem"
    /\ sys_i = gl_pathc
    /\ pc' = "RegisterUser"
    /\ last' = [op |-> "RegisterSystemExtensions"]
    /\ UNCHANGED <<startVars, serverVars, registryVars, instanceVars>>

\* One turn of the loop over paths in Start.
RegisterUserExtension(M) ==
    /\ pc = "RegisterUser"
    /\ path_i < Len(paths)
    /\ \E exists \in BOOLEAN :
          IF exists
          THEN \E m \in M : RegisterExtension(paths[path_i + 1], m)
          ELSE /\ last' = [op |-> "Exists", path |-> paths[path_i + 1]]
               /\ UNCHANGED registryVars
    /\ path_i' = path_i + 1
    /\ UNCHANGED <<pc, gl_pathc, sys_i, paths, serverVars, instanceVars>>

\* The rest of Start: the D-Bus server starts, the application is notified.
StartServer ==
    /\ pc = "RegisterUser"
    /\ path_i = Len(paths)
    /\ dbus_server_' = [callback |-> TRUE, started |-> TRUE]
    /\ notified' = notified + 1
    /\ pc' = "Listening"
    /\ last' = [op |-> "NotifyEPCreated"]
    /\ UNCHANGED <<startVars, registryVars, instanceVars>>

Init ==
    /\ pc = "Idle"
    /\ gl_pathc = 0
    /\ sys_i = 0
    /\ paths = <<>>
    /\ path_i = 0
    /\ extensions_ = <<>>
    /\ extension_symbols_ = {}
    /\ order = <<>>
    /\ loaded = {}
    /\ registered = <<>>
    /\ uuid_n = 0
    /\ instances_ = <<>>
    /\ heap = <<>>
    /\ n_sync = 0
    /\ invocations = <<>>
    /\ signals = <<>>
    /\ conn_open = TRUE
    /\ dbus_server_ = [callback |-> FALSE, started |-> FALSE]
    /\ notified = 0
    /\ created = <<>>
    /\ destroyed = {}
    /\ last = [op |-> "none"]

(* --------------------------- D-Bus methods ---------------------------- *)
InstanceIds == 1..MaxIds

Remove(map, key) == [k \in DOMAIN map \ {key} |-> map[k]]

\* std::map iterates extensions_ in the order of its keys.
NameOrder == <<"A", "B">>

Listing_OmitLast ==
    LET present == SelectSeq(NameOrder, LAMBDA n : n \in DOMAIN extensions_)
    IN  [k \in 1..(Len(present) - 1) |->
            <<extensions_[present[k]].name,
              extensions_[present[k]].javascript_api,
              extensions_[present[k]].entry_points>>]

Listing ==
    LET present == SelectSeq(NameOrder, LAMBDA n : n \in DOMAIN extensions_)
    IN  [k \in DOMAIN present |->
            <<extensions_[present[k]].name,
              extensions_[present[k]].javascript_api,
              extensions_[present[k]].entry_points>>]

\* ExtensionServer::OnGetExtensions
OnGetExtensions ==
    /\ pc = "Listening"
    /\ last' = [op |-> "GetExtensions", result |-> "value", value |-> Listing]
    /\ UNCHANGED <<pc, startVars, serverVars, registryVars, instanceVars>>

\* utils::GenerateUUID: an id that no earlier call has returned.
GenerateUUID == uuid_n + 1

\* The body of OnCreateInstance once instance_id has been generated;
\* factory_ok is whether Extension::CreateInstance returns an instance.
CreateInstanceWith(extension_name, factory_ok, connection, instance_id) ==
    LET obj == uuid_n + 1
    IN  /\ pc = "Listening"
        /\ uuid_n < MaxIds
        /\ uuid_n' = uuid_n + 1
        /\ IF extension_name \notin DOMAIN extensions_
           THEN /\ last' = [op |-> "CreateInstance", name |-> extension_name,
                            result |-> "NotFound"]
                /\ UNCHANGED <<instances_, heap, created>>
           ELSE IF ~factory_ok
           THEN /\ last' = [op |-> "CreateInstance", name |-> extension_name,
                            result |-> "CreateFailed"]
                /\ UNCHANGED <<instances_, heap, created>>
           ELSE /\ heap' = Put(heap, obj, [extension |-> extension_name,
                                           instance_id |-> instance_id,
                                           connection |-> connection,
                                           sync_reply |-> NoInvocation])
                /\ instances_' = Put(instances_, instance_id, obj)
                /\ created' = Append(created, instance_id)
                /\ last' = [op |-> "CreateInstance", name |-> extension_name,
                            result |-> "value", value |-> instance_id]
        /\ UNCHANGED <<pc, startVars, serverVars, registryVars, n_sync, invocations, signals,
                       conn_open, destroyed>>

\* OnCreateInstance with one instance_id generated once and used by every call.
OnCreateInstance_StaticId(extension_name, factory_ok, connection) ==
    CreateInstanceWith(extension_name, factory_ok, connection, 1)

\* OnCreateInstance that files what the factory returned before looking at it.
OnCreateInstance_StoreBeforeCheck(extension_name, factory_ok, connection) ==
    LET obj == uuid_n + 1
        instance_id == GenerateUUID
    IN  /\ pc = "Listening"
        /\ uuid_n < MaxIds
        /\ uuid_n' = uuid_n + 1
        /\ IF extension_name \notin DOMAIN extensions_
           THEN /\ last' = [op |-> "CreateInstance", name |-> extension_name,
                            result |-> "NotFound"]
                /\ UNCHANGED <<instances_, heap, created>>
           ELSE IF ~factory_ok
           THEN /\ instances_' = Put(instances_, instance_id, NoInstance)
                /\ last' = [op |-> "CreateInstance", name |-> extension_name,
                            result |-> "CreateFailed"]
                /\ UNCHANGED <<heap, created>>
           ELSE /\ heap' = Put(heap, obj, [extension |-> extension_name,
                                           instance_id |-> instance_id,
                                           connection |-> connection,
                                           sync_reply |-> NoInvocation])
                /\ instances_' = Put(instances_, instance_id, obj)
                /\ created' = Append(created, instance_id)
                /\ last' = [op |-> "CreateInstance", name |-> extension_name,
                            result |-> "value", value |-> instance_id]
        /\ UNCHANGED <<pc, startVars, serverVars, registryVars, n_sync,
                       invocations, signals, conn_open, destroyed>>

\* OnCreateInstance that drops an extension whose factory has failed.
OnCreateInstance_EraseOnFailure(extension_name, factory_ok, connection) ==
    LET obj == uuid_n + 1
        instance_id == GenerateUUID
    IN  /\ pc = "Listening"
        /\ uuid_n < MaxIds
        /\ uuid_n' = uuid_n + 1
        /\ IF extension_name \notin DOMAIN extensions_
           THEN /\ last' = [op |-> "CreateInstance", name |-> extension_name,
                            result |-> "NotFound"]
                /\ UNCHANGED <<extensions_, instances_, heap, created>>
           ELSE IF ~factory_ok
           THEN /\ extensions_' = Remove(extensions_, extension_name)
                /\ last' = [op |-> "CreateInstance", name |-> extension_name,
                            result |-> "CreateFailed"]
                /\ UNCHANGED <<instances_, heap, created>>
           ELSE /\ heap' = Put(heap, obj, [extension |-> extension_name,
                                           instance_id |-> instance_id,
                                           connection |-> connection,
                                           sync_reply |-> NoInvocation])
                /\ instances_' = Put(instances_, instance_id, obj)
                /\ created' = Append(created, instance_id)
                /\ last' = [op |-> "CreateInstance", name |-> extension_name,
                            result |-> "value", value |-> instance_id]
                /\ UNCHANGED extensions_
        /\ UNCHANGED <<pc, startVars, serverVars, extension_symbols_, order,
                       loaded, registered, n_sync, invocations, signals,
                       conn_open, destroyed>>

\* ExtensionServer::OnCreateInstance
OnCreateInstance(extension_name, factory_ok, connection) ==
    CreateInstanceWith(extension_name, factory_ok, connection, GenerateUUID)

\* OnDestroyInstance that deletes the instance and leaves its table entry.
OnDestroyInstance_NoErase(instance_id) ==
    /\ pc = "Listening"
    /\ IF instance_id \notin DOMAIN instances_
       THEN /\ last' = [op |-> "DestroyInstance", id |-> instance_id,
                        result |-> "NotFound"]
            /\ UNCHANGED <<instances_, heap, destroyed>>
       ELSE /\ heap' = heap
            /\ instances_' = instances_
            /\ destroyed' = destroyed \cup {instance_id}
            /\ last' = [op |-> "DestroyInstance", id |-> instance_id,
                        result |-> "value", value |-> instance_id]
    /\ UNCHANGED <<pc, startVars, serverVars, registryVars, uuid_n, n_sync, invocations, signals,
                   conn_open, created>>

\* OnDestroyInstance that answers an unknown id like a known one.
OnDestroyInstance_NoError(instance_id) ==
    /\ pc = "Listening"
    /\ IF instance_id \notin DOMAIN instances_
       THEN /\ last' = [op |-> "DestroyInstance", id |-> instance_id,
                        result |-> "value", value |-> instance_id]
            /\ UNCHANGED <<instances_, heap, destroyed>>
       ELSE /\ heap' = Remove(heap, instances_[instance_id])
            /\ instances_' = Remove(instances_, instance_id)
            /\ destroyed' = destroyed \cup {instance_id}
            /\ last' = [op |-> "DestroyInstance", id |-> instance_id,
                        result |-> "value", value |-> instance_id]
    /\ UNCHANGED <<pc, startVars, serverVars, registryVars, uuid_n, n_sync, invocations, signals,
                   conn_open, created>>

\* OnDestroyInstance that empties the table instead of erasing one entry.
OnDestroyInstance_ClearAll(instance_id) ==
    /\ pc = "Listening"
    /\ IF instance_id \notin DOMAIN instances_
       THEN /\ last' = [op |-> "DestroyInstance", id |-> instance_id,
                        result |-> "NotFound"]
            /\ UNCHANGED <<instances_, heap, destroyed>>
       ELSE /\ heap' = Remove(heap, instances_[instance_id])
            /\ instances_' = <<>>
            /\ destroyed' = destroyed \cup {instance_id}
            /\ last' = [op |-> "DestroyInstance", id |-> instance_id,
                        result |-> "value", value |-> instance_id]
    /\ UNCHANGED <<pc, startVars, serverVars, registryVars, uuid_n, n_sync,
                   invocations, signals, conn_open, created>>

\* OnDestroyInstance that returns an error on the invocations the instance
\* has left unanswered.
OnDestroyInstance_CancelPending(instance_id) ==
    /\ pc = "Listening"
    /\ IF instance_id \notin DOMAIN instances_
       THEN /\ last' = [op |-> "DestroyInstance", id |-> instance_id,
                        result |-> "NotFound"]
            /\ UNCHANGED <<instances_, heap, destroyed, invocations>>
       ELSE /\ heap' = Remove(heap, instances_[instance_id])
            /\ instances_' = Remove(instances_, instance_id)
            /\ destroyed' = destroyed \cup {instance_id}
            /\ invocations' =
                  [h \in {g \in DOMAIN invocations :
                             invocations[g] # instance_id} |-> invocations[h]]
            /\ last' = [op |-> "DestroyInstance", id |-> instance_id,
                        result |-> "value", value |-> instance_id]
    /\ UNCHANGED <<pc, startVars, serverVars, registryVars, uuid_n, n_sync,
                   signals, conn_open, created>>

\* ExtensionServer::OnDestroyInstance
OnDestroyInstance(instance_id) ==
    /\ pc = "Listening"
    /\ IF instance_id \notin DOMAIN instances_
       THEN /\ last' = [op |-> "DestroyInstance", id |-> instance_id,
                        result |-> "NotFound"]
            /\ UNCHANGED <<instances_, heap, destroyed>>
       ELSE /\ heap' = Remove(heap, instances_[instance_id])
            /\ instances_' = Remove(instances_, instance_id)
            /\ destroyed' = destroyed \cup {instance_id}
            /\ last' = [op |-> "DestroyInstance", id |-> instance_id,
                        result |-> "value", value |-> instance_id]
    /\ UNCHANGED <<pc, startVars, serverVars, registryVars, uuid_n, n_sync, invocations, signals,
                   conn_open, created>>

\* ExtensionServer::SyncReplyCallback answering the oldest pending invocation.
SyncReplyCallback_OldestInvocation(pending, reply, invocation) ==
    LET oldest == CHOOSE h \in DOMAIN pending : \A g \in DOMAIN pending : h <= g
    IN  [pending |-> Remove(pending, oldest), answered |-> oldest,
         value |-> reply]

\* ExtensionServer::SyncReplyCallback on an invocation that awaits its reply:
\* g_dbus_method_invocation_return_value answers it with reply and frees it.
SyncReplyCallback(pending, reply, invocation) ==
    [pending |-> Remove(pending, invocation), answered |-> invocation,
     value |-> reply]

\* ExtensionServer::PostMessageToJSCallback: the signals sent after it.
PostMessageToJSCallback_Prepend(sent, connection, instance_id, msg) ==
    IF connection = "null" \/ ~conn_open THEN sent
    ELSE <<<<instance_id, msg>>>> \o sent

PostMessageToJSCallback_NoCheck(sent, connection, instance_id, msg) ==
    Append(sent, <<instance_id, msg>>)

PostMessageToJSCallback(sent, connection, instance_id, msg) ==
    IF connection = "null" \/ ~conn_open THEN sent
    ELSE Append(sent, <<instance_id, msg>>)

\* What an instance does inside HandleSyncMessage: it calls its reply callback
\* with a string or defers the reply, and it may post a message to JS.
SyncBehaviours == [reply : Replies \cup {"defer"}, push : {"none", "m1"}]
ReplyAtOnce == [reply : Replies, push : {"none"}]
DeferOrReply == [reply : {"r1", "defer"}, push : {"none"}]

\* OnSendSyncMessage that stays in the handler until the instance has replied.
OnSendSyncMessage_WaitForReply(instance_id, msg, b) ==
    /\ pc = "Listening"
    /\ IF instance_id \notin DOMAIN instances_
       THEN /\ last' = [op |-> "SendSyncMessage", id |-> instance_id,
                        result |-> "NotFound", delivered |-> NoInstance]
            /\ UNCHANGED <<heap, n_sync, invocations, signals>>
       ELSE LET obj == instances_[instance_id]
                invocation == n_sync + 1
                accepted == Put(invocations, invocation, instance_id)
                r == SyncReplyCallback(accepted, b.reply, invocation)
            IN  /\ n_sync < MaxSync
                /\ n_sync' = invocation
                /\ heap' = [heap EXCEPT ![obj].sync_reply = invocation]
                /\ invocations' = IF b.reply = "defer" THEN accepted
                                  ELSE r.pending
                /\ signals' = IF b.push = "none" THEN signals
                              ELSE PostMessageToJSCallback(
                                       signals, heap[obj].connection,
                                       heap[obj].instance_id, b.push)
                /\ last' = [op |-> "SendSyncMessage", id |-> instance_id,
                            result |-> IF b.reply = "defer" THEN "pending"
                                       ELSE "value",
                            delivered |-> obj, msg |-> msg,
                            invocation |-> invocation, handler |-> b,
                            answered |-> IF b.reply = "defer" THEN NoInvocation
                                         ELSE r.answered,
                            value |-> IF b.reply = "defer" THEN "none"
                                      ELSE r.value]
    /\ pc' = IF instance_id \in DOMAIN instances_ /\ b.reply = "defer"
             THEN "AwaitReply" ELSE pc
    /\ UNCHANGED <<startVars, serverVars, registryVars, uuid_n, instances_, conn_open,
                   created, destroyed>>

\* ExtensionServer::OnSendSyncMessage
OnSendSyncMessage(instance_id, msg, b) ==
    /\ pc = "Listening"
    /\ IF instance_id \notin DOMAIN instances_
       THEN /\ last' = [op |-> "SendSyncMessage", id |-> instance_id,
                        result |-> "NotFound", delivered |-> NoInstance]
            /\ UNCHANGED <<heap, n_sync, invocations, signals>>
       ELSE LET obj == instances_[instance_id]
                invocation == n_sync + 1
                accepted == Put(invocations, invocation, instance_id)
                r == SyncReplyCallback(accepted, b.reply, invocation)
            IN  /\ n_sync < MaxSync
                /\ n_sync' = invocation
                /\ heap' = [heap EXCEPT ![obj].sync_reply = invocation]
                /\ invocations' = IF b.reply = "defer" THEN accepted
                                  ELSE r.pending
                /\ signals' = IF b.push = "none" THEN signals
                              ELSE PostMessageToJSCallback(
                                       signals, heap[obj].connection,
                                       heap[obj].instance_id, b.push)
                /\ last' = [op |-> "SendSyncMessage", id |-> instance_id,
                            result |-> IF b.reply = "defer" THEN "pending"
                                       ELSE "value",
                            delivered |-> obj, msg |-> msg,
                            invocation |-> invocation, handler |-> b,
                            answered |-> IF b.reply = "defer" THEN NoInvocation
                                         ELSE r.answered,
                            value |-> IF b.reply = "defer" THEN "none"
                                      ELSE r.value]
    /\ UNCHANGED <<pc, startVars, serverVars, registryVars, uuid_n, instances_, conn_open,
                   created, destroyed>>

\* OnPostMessage looking the instance up with instances_[instance_id], which
\* inserts an empty entry for an unknown id.
OnPostMessage_IndexLookup(instance_id, msg) ==
    /\ pc = "Listening"
    /\ IF instance_id \notin DOMAIN instances_
       THEN /\ instances_' = Put(instances_, instance_id, NoInstance)
            /\ last' = [op |-> "PostMessage", id |-> instance_id,
                        result |-> "none", delivered |-> NoInstance]
       ELSE /\ instances_' = instances_
            /\ last' = [op |-> "PostMessage", id |-> instance_id,
                        result |-> "none", delivered |-> instances_[instance_id],
                        msg |-> msg]
    /\ UNCHANGED <<pc, startVars, serverVars, registryVars, uuid_n, heap, n_sync,
                   invocations, signals, conn_open, created, destroyed>>

\* ExtensionServer::OnPostMessage
OnPostMessage(instance_id, msg) ==
    /\ pc = "Listening"
    /\ IF instance_id \notin DOMAIN instances_
       THEN last' = [op |-> "PostMessage", id |-> instance_id,
                     result |-> "none", delivered |-> NoInstance]
       ELSE last' = [op |-> "PostMessage", id |-> instance_id,
                     result |-> "none", delivered |-> instances_[instance_id],
                     msg |-> msg]
    /\ UNCHANGED <<pc, startVars, serverVars, registryVars, instanceVars>>

\* An instance calls the reply callback OnSendSyncMessage has set on it, which
\* runs SyncReplyCallback on the invocation bound into it. Once the invocation
\* has been answered it is freed, and returning a value on it again is
\* undefined: the call is ignored, a second reply goes out, or the process dies.
InstanceSyncReply(obj, reply) ==
    /\ pc = "Listening"
    /\ obj \in DOMAIN heap
    /\ heap[obj].sync_reply # NoInvocation
    /\ LET invocation == heap[obj].sync_reply
           r == SyncReplyCallback(invocations, reply, invocation)
       IN  IF invocation \in DOMAIN invocations
           THEN /\ invocations' = r.pending
                /\ pc' = pc
                /\ last' = [op |-> "SyncReply", outcome |-> "returned",
                            invocation |-> invocation,
                            answered |-> r.answered, value |-> r.value]
           ELSE \E outcome \in {"ignored", "duplicate", "crash"} :
                   /\ invocations' = invocations
                   /\ pc' = IF outcome = "crash" THEN "Crashed" ELSE pc
                   /\ last' = [op |-> "SyncReply", outcome |-> outcome,
                               invocation |-> invocation,
                               answered |-> IF outcome = "duplicate"
                                            THEN invocation ELSE NoInvocation,
                               value |-> IF outcome = "duplicate"
                                         THEN reply ELSE "none"]
    /\ UNCHANGED <<startVars, serverVars, registryVars, uuid_n, instances_, heap, n_sync,
                   signals, conn_open, created, destroyed>>

\* An instance calls the post-message callback OnCreateInstance has set on it.
InstancePostMessage(obj, msg) ==
    /\ pc = "Listening"
    /\ obj \in DOMAIN heap
    /\ Len(signals) < MaxSignals
    /\ signals' = PostMessageToJSCallback(signals, heap[obj].connection,
                                          heap[obj].instance_id, msg)
    /\ last' = [op |-> "PostMessageToJS", obj |-> obj,
                id |-> heap[obj].instance_id, msg |-> msg]
    /\ UNCHANGED <<pc, startVars, serverVars, registryVars, uuid_n, instances_, heap,
                   n_sync, invocations, conn_open, created, destroyed>>

\* The peer closes its connection.
PeerDisconnect ==
    /\ pc = "Listening"
    /\ conn_open
    /\ conn_open' = FALSE
    /\ last' = [op |-> "PeerDisconnect"]
    /\ UNCHANGED <<pc, startVars, serverVars, registryVars, uuid_n, instances_, heap,
                   n_sync, invocations, signals, created, destroyed>>

\* SIGINT or SIGTERM: quit_callback ends the main loop, and
\* StartExtensionProcess returns. The destructor of the server is empty: no
\* Extension and no ExtensionInstance is deleted on the way out.
Quit ==
    /\ pc = "Listening"
    /\ pc' = "Stopped"
    /\ last' = [op |-> "Quit"]
    /\ UNCHANGED <<startVars, serverVars, registryVars, instanceVars>>

\* The module the server is started with when its methods are exercised.
ServerModules ==
    {[ok |-> TRUE, name |-> "A", entry_points |-> <<"x">>,
      javascript_api |-> ApiOf("A")]}

\* Start with one system candidate and one caller-supplied path.
StartUp ==
    \/ Start({1}, {1})
    \/ RegisterSystemExtensions(ServerModules)
    \/ SystemExtensionsDone
    \/ RegisterUserExtension(ServerModules)
    \/ StartServer

\* ExtensionServer::HandleDBusMethod, B being what the instances may do
\* inside HandleSyncMessage.
HandleDBusMethod(B) ==
    \/ OnGetExtensions
    \/ \E n \in ExtNames, ok \in BOOLEAN, c \in Connections :
          OnCreateInstance(n, ok, c)
    \/ \E id \in InstanceIds : OnDestroyInstance(id)
    \/ \E id \in InstanceIds, m \in CallMsgs, b \in B :
          OnSendSyncMessage(id, m, b)
    \/ \E id \in InstanceIds, m \in CallMsgs : OnPostMessage(id, m)

\* The server from construction to the end of its main loop.
Next ==
    \/ StartUp
    \/ HandleDBusMethod(SyncBehaviours)
    \/ \E obj \in InstanceIds, r \in Replies : InstanceSyncReply(obj, r)
    \/ \E obj \in InstanceIds, m \in Msgs : InstancePostMessage(obj, m)
    \/ PeerDisconnect
    \/ Quit

Spec == Init /\ [][Next]_vars

\* The five methods, every instance answering a synchronous message inside
\* HandleSyncMessage and pushing nothing.
NextInstances ==
    \/ StartUp
    \/ HandleDBusMethod(ReplyAtOnce)
    \/ Quit

SpecInstances == Init /\ [][NextInstances]_vars

\* Synchronous messages to instances that answer at once, later, or again.
NextSync ==
    \/ StartUp
    \/ OnCreateInstance("A", TRUE, "peer")
    \/ \E id \in InstanceIds : OnDestroyInstance(id)
    \/ \E id \in InstanceIds, m \in CallMsgs, b \in SyncBehaviours :
          OnSendSyncMessage(id, m, b)
    \/ \E obj \in InstanceIds, r \in Replies : InstanceSyncReply(obj, r)

SpecSync == Init /\ [][NextSync]_vars

\* Instances pushing messages to a peer that may close its connection.
NextPush ==
    \/ StartUp
    \/ \E c \in Connections : OnCreateInstance("A", TRUE, c)
    \/ \E id \in InstanceIds : OnDestroyInstance(id)
    \/ \E id \in InstanceIds, m \in CallMsgs : OnPostMessage(id, m)
    \/ \E obj \in InstanceIds, m \in Msgs : InstancePostMessage(obj, m)
    \/ PeerDisconnect

SpecPush == Init /\ [][NextPush]_vars

\* Discovery alone, over every module of Modules.
NextDiscovery ==
    \/ Start(0..MaxPaths, 0..MaxSys)
    \/ RegisterSystemExtensions(Modules)
    \/ SystemExtensionsDone
    \/ RegisterUserExtension(Modules)
    \/ StartServer

SpecDiscovery == Init /\ [][NextDiscovery]_vars

\* The running server and one peer that stays: the five methods, instances
\* that answer a synchronous message inside HandleSyncMessage or later, pushes.
NextServer ==
    \/ StartUp
    \/ OnGetExtensions
    \/ \E n \in ExtNames, ok \in BOOLEAN : OnCreateInstance(n, ok, "peer")
    \/ \E id \in InstanceIds : OnDestroyInstance(id)
    \/ \E id \in InstanceIds, m \in CallMsgs, b \in DeferOrReply :
          OnSendSyncMessage(id, m, b)
    \/ \E id \in InstanceIds, m \in CallMsgs : OnPostMessage(id, m)
    \/ \E obj \in InstanceIds : InstanceSyncReply(obj, "r1")
    \/ \E obj \in InstanceIds :
          Len(signals) < MaxPushes /\ InstancePostMessage(obj, "m1")

SpecServer == Init /\ [][NextServer]_vars

\* Start is straight-line code: once called it runs to its return.
FairDiscovery == SpecDiscovery /\ WF_vars(NextDiscovery)

\* Whatever discovery has registered, listed and instantiated.
NextListing ==
    \/ NextDiscovery
    \/ OnGetExtensions
    \/ \E n \in ExtNames : OnCreateInstance(n, TRUE, "peer")

SpecListing == Init /\ [][NextListing]_vars

(* ------------------------- registry properties ------------------------ *)
\* The identifiers a module claims: its name and its entry points.
Idents(ext) == {ext.name} \cup Range(ext.entry_points)

\* C1: no two registered modules share a name, and no identifier (name or
\* entry point) of one registered module is an identifier of another one.
NamespaceUnique ==
    /\ \A i, j \in DOMAIN registered :
          i # j => registered[i] # registered[j]
    /\ \A n1, n2 \in DOMAIN extensions_ :
          n1 # n2 => Idents(extensions_[n1]) \cap Idents(extensions_[n2]) = {}

\* Two modules are registered and a third candidate was turned away.
NamespaceUniqueWitness ==
    /\ Len(registered) = 2
    /\ last.op = "RegisterExtension"
    /\ last.result = "rejected"

\* C2: a RegisterExtension call on a loaded module whose name or one of whose
\* entry points is already in extension_symbols_ rejects it and leaves
\* extensions_ and extension_symbols_ as they were.
AdmissionAllOrNothing ==
    [][(/\ order' # order
        /\ last'.op = "RegisterExtension"
        /\ last'.module.ok
        /\ Idents(last'.module) \cap extension_symbols_ # {})
       => (/\ last'.result = "rejected"
           /\ extensions_' = extensions_
           /\ extension_symbols_' = extension_symbols_
           /\ registered' = registered)]_vars

\* A module was rejected for one entry point while another of its entry
\* points collides with nothing and is not in the namespace.
AdmissionAllOrNothingWitness ==
    /\ last.op = "RegisterExtension"
    /\ last.result = "rejected"
    /\ last.module.name \notin extension_symbols_
    /\ \E k \in DOMAIN last.module.entry_points :
          last.module.entry_points[k] \notin extension_symbols_

\* RegisterExtension is called on the system paths first, in glob order, and
\* then on the caller's paths in the order given.
SystemFirstInOrder ==
    \A i, j \in DOMAIN order :
        i < j => /\ order[i][1] = "usr" => order[j][1] = "usr"
                 /\ order[i][1] = order[j][1] => order[i][2] < order[j][2]

IdUnique ==
    /\ \A o1, o2 \in DOMAIN heap :
          o1 # o2 => heap[o1].instance_id # heap[o2].instance_id
    /\ \A id \in DOMAIN instances_ :
          /\ instances_[id] \in DOMAIN heap
          /\ heap[instances_[id]].instance_id = id
    /\ \A i, j \in DOMAIN created : i # j => created[i] # created[j]

\* Two ids have been returned, the first one destroyed, the second one live.
IdUniqueWitness ==
    /\ Len(created) = 2
    /\ created[1] \in destroyed
    /\ created[2] \in DOMAIN instances_

\* C5: once DestroyInstance(id) has succeeded, id is in the instance table
\* never again: SendSyncMessage(id) and DestroyInstance(id) answer not-found
\* and SendSyncMessage(id) and PostMessage(id) deliver to no instance.
DestroyedStaysUnknown ==
    [][/\ destroyed' \cap DOMAIN instances_' = {}
       /\ \A id \in destroyed :
             /\ (last'.op \in {"SendSyncMessage", "DestroyInstance"}
                    /\ last'.id = id) => last'.result = "NotFound"
             /\ (last'.op \in {"SendSyncMessage", "PostMessage"}
                    /\ last'.id = id) => last'.delivered = NoInstance]_vars

\* A synchronous message to a destroyed id was answered not-found while
\* another instance is live.
DestroyedStaysUnknownWitness ==
    /\ last.op = "SendSyncMessage"
    /\ last.id \in destroyed
    /\ last.result = "NotFound"
    /\ DOMAIN instances_ # {}

\* C6: when the instance answers inside HandleSyncMessage with r, the call
\* that was just accepted is the one answered, with r; no other pending call
\* is answered; and no signal is sent unless the instance posts a message.
SyncRoundTrip ==
    [][(/\ last'.op = "SendSyncMessage"
        /\ last'.result # "NotFound"
        /\ last'.handler.reply # "defer")
       => (/\ last'.result = "value"
           /\ last'.invocation = n_sync'
           /\ n_sync' = n_sync + 1
           /\ last'.answered = last'.invocation
           /\ last'.value = last'.handler.reply
           /\ invocations' = invocations
           /\ last'.handler.push = "none" => signals' = signals)]_vars

\* A call was answered at once, without a signal, while an earlier call on
\* another instance still awaits its reply.
SyncRoundTripWitness ==
    /\ last.op = "SendSyncMessage"
    /\ last.result = "value"
    /\ last.value = "r2"
    /\ last.handler.push = "none"
    /\ signals = <<>>
    /\ \E h \in DOMAIN invocations : invocations[h] # last.id

\* C7 as stated: once a call has been answered the reply callback of its
\* instance is cleared, so no invocation is answered a second time.
OneShotSinkAsClaimed ==
    /\ \A obj \in DOMAIN heap :
          heap[obj].sync_reply # NoInvocation
          => heap[obj].sync_reply \in DOMAIN invocations
    /\ last.op = "SyncReply" => last.outcome = "returned"

\* C8 as stated: no instance has two SendSyncMessage calls awaiting a reply.
AtMostOneOutstandingSync ==
    \A id \in InstanceIds :
        Cardinality({h \in DOMAIN invocations : invocations[h] = id}) <= 1

\* C9: DestroyInstance with an id that is not in the instance table answers
\* not-found, changes neither table nor the namespace, and the server goes
\* on listening.
UnknownDestroyRejected ==
    [][(last'.op = "DestroyInstance" /\ last'.id \notin DOMAIN instances_)
       => (/\ last'.result = "NotFound"
           /\ instances_' = instances_
           /\ heap' = heap
           /\ extensions_' = extensions_
           /\ extension_symbols_' = extension_symbols_
           /\ pc' = "Listening")]_vars

\* DestroyInstance was answered not-found for an id destroyed before, while
\* another instance is live.
UnknownDestroyRejectedWitness ==
    /\ last.op = "DestroyInstance"
    /\ last.result = "NotFound"
    /\ last.id \in destroyed
    /\ DOMAIN instances_ # {}

\* C10: PostMessage with an id that is not in the instance table answers
\* nothing, delivers to no instance, sends no signal, and changes neither
\* table nor the namespace.
UnknownPostDropped ==
    [][(last'.op = "PostMessage" /\ last'.id \notin DOMAIN instances_)
       => (/\ last'.result = "none"
           /\ last'.delivered = NoInstance
           /\ signals' = signals
           /\ invocations' = invocations
           /\ instances_' = instances_
           /\ heap' = heap
           /\ extensions_' = extensions_
           /\ extension_symbols_' = extension_symbols_)]_vars

\* PostMessage to an id that is not in the table was dropped while another
\* instance is live.
UnknownPostDroppedWitness ==
    /\ last.op = "PostMessage"
    /\ last.id \notin DOMAIN instances_
    /\ last.delivered = NoInstance
    /\ DOMAIN instances_ # {}

\* C11: the signals go out in the order the pushes were issued. No step takes
\* back or reorders a signal already emitted, and a push made by an instance
\* whose connection is there and open adds exactly one signal, at the end,
\* carrying the id the instance is filed under and the message pushed.
AsyncPushOrder ==
    [][/\ Len(signals') >= Len(signals)
       /\ SubSeq(signals', 1, Len(signals)) = signals
       /\ (/\ last'.op = "PostMessageToJS"
           /\ conn_open
           /\ heap[last'.obj].connection = "peer")
          => /\ signals' = Append(signals, <<last'.id, last'.msg>>)
             /\ \A id \in DOMAIN instances_ :
                   instances_[id] = last'.obj => last'.id = id]_vars

\* Instance 1 has pushed m1 and then m2, with another instance alive.
AsyncPushOrderWitness ==
    /\ last.op = "PostMessageToJS"
    /\ signals = <<<<1, "m1">>, <<1, "m2">>>>
    /\ Cardinality(DOMAIN instances_) = 2

\* C12: CreateInstance answers not-found exactly when no extension has the
\* name, and otherwise create-failed or an id. A failed call leaves the
\* instance table and the instances as they were. A successful one adds one
\* entry, under the id it returns, for a new instance, and keeps the others.
CreateInstanceOutcome ==
    [][last'.op = "CreateInstance" =>
         /\ last'.name \notin DOMAIN extensions_ <=> last'.result = "NotFound"
         /\ last'.result \in {"NotFound", "CreateFailed", "value"}
         /\ last'.result \in {"NotFound", "CreateFailed"} =>
               /\ instances_' = instances_
               /\ heap' = heap
         /\ last'.result = "value" =>
               /\ last'.value \notin DOMAIN instances_
               /\ DOMAIN instances_' = DOMAIN instances_ \cup {last'.value}
               /\ \A id \in DOMAIN instances_ : instances_'[id] = instances_[id]
               /\ instances_'[last'.value] \in DOMAIN heap' \ DOMAIN heap
               /\ Cardinality(DOMAIN heap') = Cardinality(DOMAIN heap) + 1]_vars

\* The factory has failed while another instance is in the table.
CreateInstanceOutcomeWitness ==
    /\ last.op = "CreateInstance"
    /\ last.result = "CreateFailed"
    /\ Cardinality(DOMAIN instances_) = 1

\* C13: GetExtensions always returns a value: one (name, javascript_api,
\* entry_points) entry for each registered extension, taken from that
\* extension, and no other entry, so none at all for an empty registry. The
\* registry, the instance table and the instances stay as they were.
GetExtensionsListsRegistry ==
    [][last'.op = "GetExtensions" =>
         /\ last'.result = "value"
         /\ Len(last'.value) = Cardinality(DOMAIN extensions_)
         /\ \A n \in DOMAIN extensions_ :
               \E k \in 1..Len(last'.value) :
                   last'.value[k] = <<n, extensions_[n].javascript_api,
                                      extensions_[n].entry_points>>
         /\ UNCHANGED <<registryVars, instances_, heap>>]_vars

\* Two extensions are registered, an instance exists, and both are listed.
GetExtensionsListsRegistryWitness ==
    /\ last.op = "GetExtensions"
    /\ Len(last.value) = 2
    /\ DOMAIN instances_ # {}

\* C14: when ConnectByName fails Start returns false at once, and in the
\* server that failed to start no extension has been loaded or registered,
\* the method callback is not set, the D-Bus server is not started, no ready
\* notification has been sent, and nothing of this happens later.
ConnectFailureStartsNothing ==
    [][/\ (last'.op = "Start" /\ ~last'.result) => pc' = "StartFailed"
       /\ pc' = "StartFailed" =>
             /\ loaded' = {}
             /\ order' = <<>>
             /\ extensions_' = <<>>
             /\ extension_symbols_' = {}
             /\ dbus_server_' = [callback |-> FALSE, started |-> FALSE]
             /\ notified' = 0
       /\ pc = "StartFailed" => pc' = "StartFailed"]_vars

\* Start has failed to connect, called with a path to register.
ConnectFailureStartsNothingWitness ==
    /\ pc = "StartFailed"
    /\ last = [op |-> "Start", result |-> FALSE]
    /\ Len(paths) = 1

\* C15: once ConnectByName has succeeded the server gets to Listening,
\* whatever the modules it loads do. The ready notification is sent at most
\* once, has been sent once in Listening, and is sent only when the system
\* candidates and the caller's paths have all been visited and the method
\* callback is set on the started D-Bus server.
ReadyOnceAfterRegistration ==
    /\ [](notified <= 1)
    /\ [](pc = "Listening" => notified = 1)
    /\ [](notified = 1 =>
            /\ pc = "Listening"
            /\ sys_i = gl_pathc
            /\ path_i = Len(paths)
            /\ Len(order) <= gl_pathc + Len(paths)
            /\ dbus_server_ = [callback |-> TRUE, started |-> TRUE])
    /\ (pc = "RegisterSystem") ~> (pc = "Listening")

\* The server listens after one module failed to load and one was rejected.
ReadyOnceAfterRegistrationWitness ==
    /\ pc = "Listening"
    /\ notified = 1
    /\ Len(order) = 3
    /\ Len(registered) = 1
    /\ \E l \in loaded : ~l[3]

\* C16: in the stopped server every instance and every extension has been
\* released: no ExtensionInstance and no Extension object is left alive.
ReleasedWhenStopped ==
    pc = "Stopped" => DOMAIN heap = {} /\ DOMAIN extensions_ = {}

\* C18: a push made while the connection of the instance is missing or the
\* peer has closed it emits no signal and does nothing else: the server goes
\* on, and the instance table and the instances are as before, so the
\* instance is still filed under its id.
ClosedConnectionDropsPush ==
    [][(/\ last'.op = "PostMessageToJS"
        /\ (~conn_open \/ heap[last'.obj].connection = "null"))
       => /\ signals' = signals
          /\ pc' = pc
          /\ instances_' = instances_
          /\ heap' = heap
          /\ last'.obj \in DOMAIN heap']_vars

\* An instance still in the table has pushed after the peer closed.
ClosedConnectionDropsPushWitness ==
    /\ last.op = "PostMessageToJS"
    /\ ~conn_open
    /\ last.id \in DOMAIN instances_
    /\ heap[last.obj].connection = "peer"

\* C19: a successful DestroyInstance returns the id it was given and erases
\* the entry of that id alone: every other entry, and the instance it points
\* to, is as before, and so are the extensions and their symbols.
DestroyRemovesOnlyItsEntry ==
    [][(last'.op = "DestroyInstance" /\ last'.result = "value")
       => /\ last'.value = last'.id
          /\ last'.id \in DOMAIN instances_
          /\ DOMAIN instances_' = DOMAIN instances_ \ {last'.id}
          /\ \A id \in DOMAIN instances_' :
                /\ instances_'[id] = instances_[id]
                /\ instances_[id] \in DOMAIN heap'
                /\ heap'[instances_[id]] = heap[instances_[id]]
          /\ UNCHANGED registryVars]_vars

\* One of two live instances has been destroyed.
DestroyRemovesOnlyItsEntryWitness ==
    /\ last.op = "DestroyInstance"
    /\ last.result = "value"
    /\ Cardinality(DOMAIN instances_) = 1
    /\ Len(created) = 2

\* C17: a synchronous call whose reply is outstanding holds up nothing else.
\* While one is pending and the process runs, the server is back in its main
\* loop, where every method and every push of an instance can be taken; and
\* a call handled meanwhile is completed as ever: GetExtensions returns the
\* listing, CreateInstance files what it returns, DestroyInstance erases the
\* instance it knows, PostMessage reaches the instance, a SendSyncMessage
\* answered inside its handler returns that answer and leaves the pending
\* calls pending, and a push to an open connection is emitted.
SyncStallsOnlyItsCall ==
    /\ []((DOMAIN invocations # {} /\ pc \notin {"Stopped", "Crashed"}) =>
            /\ pc = "Listening"
            /\ ENABLED OnGetExtensions
            /\ uuid_n < MaxIds => ENABLED OnCreateInstance("A", TRUE, "peer")
            /\ \A id \in InstanceIds :
                  /\ ENABLED OnDestroyInstance(id)
                  /\ ENABLED OnPostMessage(id, "get")
            /\ \A id \in DOMAIN instances_ :
                  n_sync < MaxSync =>
                      \A b \in DeferOrReply : ENABLED OnSendSyncMessage(id, "get", b)
            /\ \A obj \in DOMAIN heap :
                  Len(signals) < MaxSignals => ENABLED InstancePostMessage(obj, "m1"))
    /\ [][DOMAIN invocations # {} =>
            /\ last'.op = "GetExtensions" =>
                  last'.result = "value" /\ last'.value = Listing
            /\ (last'.op = "CreateInstance" /\ last'.result = "value") =>
                  /\ last'.value \in DOMAIN instances_' \ DOMAIN instances_
                  /\ invocations' = invocations
            /\ (last'.op = "DestroyInstance" /\ last'.id \in DOMAIN instances_) =>
                  /\ last'.result = "value"
                  /\ last'.id \notin DOMAIN instances_'
            /\ (last'.op = "PostMessage" /\ last'.id \in DOMAIN instances_) =>
                  last'.delivered = instances_[last'.id]
            /\ (/\ last'.op = "SendSyncMessage"
                /\ last'.id \in DOMAIN instances_
                /\ last'.handler.reply # "defer") =>
                  /\ last'.result = "value"
                  /\ last'.answered = last'.invocation
                  /\ last'.value = last'.handler.reply
                  /\ invocations' = invocations
            /\ (/\ last'.op = "PostMessageToJS"
                /\ conn_open
                /\ heap[last'.obj].connection = "peer") =>
                  signals' = Append(signals, <<last'.id, last'.msg>>)]_vars

\* With the call to instance 1 pending, instance 2 has answered one of its own.
SyncStallsOnlyItsCallWitness ==
    /\ pc = "Listening"
    /\ DOMAIN invocations = {1}
    /\ invocations[1] = 1
    /\ last.op = "SendSyncMessage"
    /\ last.id = 2
    /\ last.result = "value"

\* C20: from Listening on no step adds, removes or replaces an extension or
\* a symbol: extensions_ and extension_symbols_ are what Start left.
RegistryFixedWhileListening ==
    [][pc = "Listening" =>
         /\ extensions_' = extensions_
         /\ extension_symbols_' = extension_symbols_]_vars

\* The server listens, extension A registered, after instances were created
\* and destroyed, a call answered, a push emitted and an unknown name asked for.
RegistryFixedWhileListeningWitness ==
    /\ pc = "Listening"
    /\ DOMAIN extensions_ = {"A"}
    /\ destroyed # {}
    /\ n_sync > 0
    /\ signals # <<>>
    /\ last = [op |-> "CreateInstance", name |-> "B", result |-> "NotFound"]

\* C21: extension_symbols_ is exactly the union of the names and entry
\* points of the extensions in extensions_: a module that failed to
\* initialize or was rejected has left nothing in it, and every identifier
\* of every registered extension is in it.
NamespaceIsUnionOfRegistered ==
    extension_symbols_ =
        UNION {Idents(extensions_[n]) : n \in DOMAIN extensions_}

\* Three modules were handed to RegisterExtension: one failed to initialize,
\* one was rejected, and one with an entry point was admitted.
NamespaceIsUnionOfRegisteredWitness ==
    /\ Len(order) = 3
    /\ DOMAIN extensions_ = {"A"}
    /\ extension_symbols_ = {"A", "x"}
    /\ \E l \in loaded : ~l[3]
    /\ Cardinality(loaded) = 2

\* C22: DestroyInstance of a known id succeeds and answers none of the
\* invocations awaiting a reply, whether the instance has one or not; and an
\* invocation left pending by a destroyed instance stays pending in every
\* later step: no reply value and no error is ever returned on it.
DestroyAbandonsPendingCall ==
    [][/\ (last'.op = "DestroyInstance" /\ last'.id \in DOMAIN instances_) =>
             /\ last'.result = "value"
             /\ last'.value = last'.id
             /\ invocations' = invocations
       /\ \A h \in DOMAIN invocations :
             invocations[h] \in destroyed =>
                 /\ h \in DOMAIN invocations'
                 /\ invocations'[h] = invocations[h]
                 /\ last'.op = "SyncReply" => last'.answered # h
                 /\ (last'.op = "SendSyncMessage" /\ last'.result # "NotFound")
                       => last'.answered # h]_vars

\* Instance 1 was destroyed with its call pending; instance 2 has since
\* answered a call of its own, and the call to instance 1 still waits.
DestroyAbandonsPendingCallWitness ==
    /\ 1 \in destroyed
    /\ \E h \in DOMAIN invocations : invocations[h] = 1
    /\ last.op = "SyncReply"
    /\ last.outcome = "returned"

====
